---- MODULE Spec2Model ----
(***************************************************************************)
(* Model of package workspace (markdumay/go-workspace): the directory      *)
(* registry AppDirs (workspace.go), the directory descriptor Dir (dir.go), *)
(* the keyword maps, the path transcoder and the temp-directory lifecycle. *)
(*                                                                         *)
(* A []string is a slice of an array: the arrays are part of the state, so *)
(* that descriptors which share an array, with each other or with a        *)
(* default alias table, see what is written through one of them.           *)
(*                                                                         *)
(* A Go string is a sequence of one-character strings, so that prefix,     *)
(* substring and segment operations are computed as the code computes      *)
(* them.  The platform is a POSIX one: os.PathSeparator is "/" and         *)
(* runtime.GOOS is not "windows".                                          *)
(***************************************************************************)
EXTENDS Integers, Sequences, FiniteSets, TLC

(***************************************************************************)
(* Bounds of the model.                                                    *)
(***************************************************************************)
\* number of Assign calls made on one registry
MaxAssign == 2

\* number of descriptors callers hold, and of the AppendAliases and RemoveAliases
\* calls they make on them
MaxHeld == 2
MaxAlias == 2

(***************************************************************************)
(* Strings.                                                                *)
(***************************************************************************)
\* os.PathSeparator
PathSeparator == "/"

\* the empty Go string
Empty == << >>

\* the characters the model uses, in byte order (the order of sort.Strings)
Bytes == << "$", ".", "/", "A", "C", "D", "E", "H", "I", "M", "O", "P", "R", "T", "W", "X",
            "a", "b", "c", "d", "e", "f", "g", "h", "i", "k", "m", "n", "o", "p", "q", "r", "s", "t", "u",
            "w", "x", "y",
            "{", "}", "~" >>

\* the position of a character in byte order
Ord(c) == CHOOSE i \in 1..Len(Bytes) : Bytes[i] = c

\* the Go comparison s < t of two strings
RECURSIVE StrLess(_, _)
StrLess(s, t) ==
    IF t = Empty THEN FALSE
    ELSE IF s = Empty THEN TRUE
    ELSE IF Head(s) = Head(t) THEN StrLess(Tail(s), Tail(t))
    ELSE Ord(Head(s)) < Ord(Head(t))

\* strings.HasPrefix(s, prefix)
HasPrefix(s, prefix) ==
    /\ Len(prefix) <= Len(s)
    /\ SubSeq(s, 1, Len(prefix)) = prefix

\* strings.HasSuffix(s, suffix), as strings.TrimSuffix tests it
HasSuffix(s, suffix) ==
    /\ Len(suffix) <= Len(s)
    /\ SubSeq(s, Len(s) - Len(suffix) + 1, Len(s)) = suffix

\* strings.TrimSuffix(s, suffix)
TrimSuffix(s, suffix) ==
    IF HasSuffix(s, suffix) THEN SubSeq(s, 1, Len(s) - Len(suffix)) ELSE s

\* strings.Index(s, sub) counted from 1, 0 when sub does not occur in s
Index(s, sub) ==
    LET hits == { i \in 1..(Len(s) - Len(sub) + 1) : SubSeq(s, i, i + Len(sub) - 1) = sub }
    IN  IF hits = {} THEN 0 ELSE CHOOSE i \in hits : \A j \in hits : i <= j

\* strings.Split(s, "/")
RECURSIVE Split(_)
Split(s) ==
    LET i == Index(s, <<PathSeparator>>)
    IN  IF i = 0 THEN <<s>>
        ELSE <<SubSeq(s, 1, i - 1)>> \o Split(SubSeq(s, i + 1, Len(s)))

\* strings.Join(elems, "/")
RECURSIVE StringsJoin(_)
StringsJoin(elems) ==
    IF elems = << >> THEN Empty
    ELSE IF Len(elems) = 1 THEN elems[1]
    ELSE elems[1] \o <<PathSeparator>> \o StringsJoin(Tail(elems))

\* strings.ReplaceAll(s, old, new) for a non-empty old
RECURSIVE ReplaceNonEmpty(_, _, _)
ReplaceNonEmpty(s, old, new) ==
    LET i == Index(s, old)
    IN  IF i = 0 THEN s
        ELSE SubSeq(s, 1, i - 1) \o new
             \o ReplaceNonEmpty(SubSeq(s, i + Len(old), Len(s)), old, new)

\* strings.ReplaceAll(s, "", new): new is put before every character and at the end
RECURSIVE ReplaceEmpty(_, _)
ReplaceEmpty(s, new) ==
    IF s = Empty THEN new
    ELSE new \o <<Head(s)>> \o ReplaceEmpty(Tail(s), new)

\* strings.ReplaceAll(s, old, new)
ReplaceAll(s, old, new) ==
    IF old = Empty THEN ReplaceEmpty(s, new) ELSE ReplaceNonEmpty(s, old, new)

\* strings.Replace(s, old, new, 1) for a non-empty old
ReplaceFirst(s, old, new) ==
    LET i == Index(s, old)
    IN  IF i = 0 THEN s
        ELSE SubSeq(s, 1, i - 1) \o new \o SubSeq(s, i + Len(old), Len(s))

(***************************************************************************)
(* package path/filepath on a POSIX platform.                              *)
(***************************************************************************)
Dot == << "." >>
DotDot == << ".", "." >>

\* filepath.IsAbs(path)
IsAbs(path) == HasPrefix(path, <<PathSeparator>>)

\* the element stack of filepath.Clean after one more element: "" and "." are
\* dropped, ".." removes the element before it, is dropped at the root and is kept
\* in a relative path
CleanPush(out, e, rooted) ==
    IF e = Empty \/ e = Dot THEN out
    ELSE IF e # DotDot THEN Append(out, e)
    ELSE IF out # << >> /\ out[Len(out)] # DotDot THEN SubSeq(out, 1, Len(out) - 1)
    ELSE IF rooted THEN out
    ELSE Append(out, e)

\* the loop of filepath.Clean over the elements of the path
RECURSIVE CleanElems(_, _, _)
CleanElems(elems, out, rooted) ==
    IF elems = << >> THEN out
    ELSE CleanElems(Tail(elems), CleanPush(out, Head(elems), rooted), rooted)

\* the cleaned elements put together again: "/" before them in a rooted path, "."
\* for a relative path that has none
CleanJoin(out, rooted) ==
    IF rooted THEN <<PathSeparator>> \o StringsJoin(out)
    ELSE IF out = << >> THEN Dot
    ELSE StringsJoin(out)

\* filepath.Clean(path)
Clean(path) ==
    IF path = Empty THEN Dot
    ELSE CleanJoin(CleanElems(Split(path), << >>, IsAbs(path)), IsAbs(path))

\* filepath.Join(a, b): the first non-empty element onwards, joined and cleaned
Join(a, b) ==
    IF a = Empty /\ b = Empty THEN Empty
    ELSE Clean(IF a # Empty THEN a \o <<PathSeparator>> \o b ELSE b)

\* filepath.Dir(path): all but the last element, cleaned
Dir(path) ==
    LET seps == { i \in 1..Len(path) : path[i] = PathSeparator }
        last == IF seps = {} THEN 0 ELSE CHOOSE i \in seps : \A j \in seps : j <= i
    IN  Clean(SubSeq(path, 1, last))

\* the elements of a cleaned path as filepath.Rel walks them: "" has none, and the
\* root has the one empty element before its separator
RelElems(path) ==
    IF path = Empty THEN << >>
    ELSE IF path = <<PathSeparator>> THEN << Empty >>
    ELSE Split(path)

\* the number of leading elements two element lists have in common
RECURSIVE CommonElems(_, _)
CommonElems(bs, ts) ==
    IF bs = << >> \/ ts = << >> \/ Head(bs) # Head(ts) THEN 0
    ELSE 1 + CommonElems(Tail(bs), Tail(ts))

\* n times "..", joined by the separator
RECURSIVE DotDots(_)
DotDots(n) == IF n = 0 THEN << >> ELSE <<DotDot>> \o DotDots(n - 1)

\* the result of filepath.Rel from the elements of the two cleaned paths, k of
\* which they have in common: ".." for every element left of the base, then the
\* elements left of the target
RelFrom(bs, ts, k) ==
    IF k < Len(bs) /\ k < Len(ts) /\ bs[k + 1] = DotDot
    THEN [ok |-> FALSE, path |-> Empty]
    ELSE [ok |-> TRUE,
          path |-> StringsJoin(DotDots(Len(bs) - k) \o SubSeq(ts, k + 1, Len(ts)))]

\* filepath.Rel for a cleaned base (with "." made "") and a cleaned target
RelCleaned(base, targ) ==
    IF IsAbs(base) # IsAbs(targ) THEN [ok |-> FALSE, path |-> Empty]
    ELSE RelFrom(RelElems(base), RelElems(targ),
                 CommonElems(RelElems(base), RelElems(targ)))

\* filepath.Rel of two cleaned paths
RelClean(base, targ) ==
    IF targ = base THEN [ok |-> TRUE, path |-> Dot]
    ELSE RelCleaned(IF base = Dot THEN Empty ELSE base, targ)

\* filepath.Rel(basepath, targpath): [ok, path]; ok is FALSE for Rel's error
Rel(basepath, targpath) == RelClean(Clean(basepath), Clean(targpath))

(***************************************************************************)
(* The platform: the process and the directories the operating system      *)
(* reports.  The lookups succeed and return absolute paths.                *)
(***************************************************************************)
\* the application name the callers pass
appName == << "A" >>

\* os.TempDir()
TempDir == << "/", "t" >>

\* os.UserHomeDir()
UserHomeDir == << "/", "h" >>

\* os.UserCacheDir()
UserCacheDir == << "/", "h", "/", "c" >>

\* os.Getwd()
Getwd == << "/", "h", "/", "w" >>

\* os.Args[0]
Args0 == << "/", "g", "/", "w", ".", "t" >>

\* the name of the repository marker
GitDir == << ".", "g", "i", "t" >>

\* the nil error, and an error with its message and the value formatted into it
NoError == [msg |-> "", arg |-> Empty]
Errorf(msg, arg) == [msg |-> msg, arg |-> arg]

VARIABLES
    cache,            \* AppDirs.cache: a Dir or NilDir
    config,           \* AppDirs.config
    home,             \* AppDirs.home
    temp,             \* AppDirs.temp
    workspace,        \* AppDirs.workspace
    keywords,         \* AppDirs.keywords: alias -> path
    keywordsReverse,  \* AppDirs.keywordsReverse: path -> alias
    fs,               \* the file system: path -> "dir" or "file"
    last,             \* the last call made on the package and what it returned
    nAssign,          \* the number of Assign calls made
    panicked,         \* TRUE once a call ended in a run-time panic
    arrays,           \* the backing arrays of the []string slices, the first five
                      \* those of the default alias tables
    held,             \* the descriptors NewDir has returned to the caller
    nAlias            \* the number of AppendAliases and RemoveAliases calls made on them

vars == << cache, config, home, temp, workspace, keywords, keywordsReverse,
           fs, last, nAssign, panicked, arrays, held, nAlias >>

\* an os.Stat that reports every entry as a directory
IsEntry(path) == path \in DOMAIN fs

\* os.Stat(path) succeeds and IsDir() holds
IsDirectory(path) == path \in DOMAIN fs /\ fs[path] = "dir"

\* the base name of the running command: the second result of filepath.Split
BaseName(path) ==
    LET elems == Split(path)
    IN  elems[Len(elems)]

\* the loop of Root: the nearest directory from dir upwards that holds a .git
\* directory.  isRoot is set once the loop has moved up to the root.
RECURSIVE RootWalk(_, _)
RootWalk(dir, moved) ==
    IF IsDirectory(Join(dir, GitDir)) THEN [path |-> dir, err |-> NoError]
    ELSE IF moved /\ dir = <<PathSeparator>>
    THEN [path |-> Empty,
          err |-> Errorf("cannot identify workspace root (no .git repository found)", Empty)]
    ELSE RootWalk(Dir(dir), TRUE)

\* a Root that looks for the marker whatever the name of the process
RootOfWalked(args0, wd, name) == RootWalk(wd, FALSE)

\* Root(appName) of a process started as args0 in the working directory wd:
\* [path, err]
RootOf(args0, wd, name) ==
    IF BaseName(args0) = name THEN [path |-> wd, err |-> NoError]
    ELSE RootWalk(wd, FALSE)

\* Root(appName): [path, err]
Root(name) == RootOf(Args0, Getwd, name)

(***************************************************************************)
(* dir.go: the directory types, the default aliases and the descriptor.    *)
(***************************************************************************)
Cache == 1
Config == 2
Home == 3
Workspace == 4
Temp == 5

\* a []string: its backing array and its length; its capacity is the length of
\* the array
Slice(arr, len) == [arr |-> arr, len |-> len]

\* the strings of slice s when the backing arrays are h
Elems(h, s) == SubSeq(h[s.arr], 1, s.len)

\* the default alias tables: package variables that share their backing array
\* with every slice assigned from them
defaultCache == Slice(Cache, 2)
defaultConfig == Slice(Config, 0)
defaultHome == Slice(Home, 3)
defaultWorkspace == Slice(Workspace, 4)
defaultTemp == Slice(Temp, 8)

\* the backing arrays of the default alias tables when the package is loaded.
\* init() has appended "~" to defaultHome: append has moved the two strings to
\* an array of twice the capacity, whose last element is still the zero value.
InitArrays ==
    << << <<"$","C","A","C","H","E">>, <<"$","{","C","A","C","H","E","}">> >>,
       << >>,
       << <<"$","H","O","M","E">>, <<"$","{","H","O","M","E","}">>, <<"~">>, Empty >>,
       << <<"$","w","o","r","k","s","p","a","c","e","R","o","o","t">>,
          <<"$","{","w","o","r","k","s","p","a","c","e","R","o","o","t","}">>,
          <<"$","P","W","D">>, <<"$","{","P","W","D","}">> >>,
       << <<"$","T","E","M","P">>, <<"$","{","T","E","M","P","}">>,
          <<"$","T","M","P">>, <<"$","{","T","M","P","}">>,
          <<"$","T","M","P","D","I","R">>, <<"$","{","T","M","P","D","I","R","}">>,
          <<"$","T","E","M","P","D","I","R">>, <<"$","{","T","E","M","P","D","I","R","}">> >> >>

\* the nil *Dir
NilDir == [nil |-> TRUE]

\* a Dir value
MkDir(dirType, path, aliases) == [dirType |-> dirType, path |-> path, aliases |-> aliases]

\* the descriptor d with the strings Dir.Aliases() returns in place of its slice
View(h, d) == IF d = NilDir THEN NilDir ELSE [d EXCEPT !.aliases = Elems(h, d.aliases)]

\* exists(arr, item)
exists(arr, item) == \E i \in 1..Len(arr) : arr[i] = item

\* a String that takes every value below Cache for Cache
StringClamped(d) ==
    IF d > Temp THEN Empty
    ELSE << <<"c","a","c","h","e">>, <<"c","o","n","f","i","g">>, <<"h","o","m","e">>,
            <<"w","o","r","k","s","p","a","c","e">>, <<"t","e","m","p">> >>[IF d < Cache THEN Cache ELSE d]

\* DirType.String()
String(d) ==
    IF d < Cache \/ d > Temp THEN Empty
    ELSE << <<"c","a","c","h","e">>, <<"c","o","n","f","i","g">>, <<"h","o","m","e">>,
            <<"w","o","r","k","s","p","a","c","e">>, <<"t","e","m","p">> >>[d]

\* the default aliases NewDir and Assign select in their switch on the type; for
\* a value that is no type NewDir keeps the slice without capacity it has made
DefaultAliases(dirType) ==
    IF dirType = Cache THEN defaultCache
    ELSE IF dirType = Config THEN defaultConfig
    ELSE IF dirType = Workspace THEN defaultWorkspace
    ELSE IF dirType = Home THEN defaultHome
    ELSE IF dirType = Temp THEN defaultTemp
    ELSE Slice(Config, 0)

\* a NewDir that joins the home directory, too, with the application name
DefaultPathJoined(dirType, name) ==
    IF dirType = Config \/ dirType = Workspace THEN Root(name)
    ELSE [path |-> Join(IF dirType = Cache THEN UserCacheDir
                        ELSE IF dirType = Home THEN UserHomeDir ELSE TempDir, name),
          err |-> NoError]

\* the path NewDir derives for a type when no path is given: [path, err]
DefaultPath(dirType, name) ==
    IF dirType = Cache THEN [path |-> Join(UserCacheDir, name), err |-> NoError]
    ELSE IF dirType = Config \/ dirType = Workspace THEN Root(name)
    ELSE IF dirType = Home THEN [path |-> UserHomeDir, err |-> NoError]
    ELSE IF dirType = Temp THEN [path |-> Join(TempDir, name), err |-> NoError]
    ELSE [path |-> Empty, err |-> NoError]

\* the end of NewDir in the arrays h, from the path p it has settled on:
\* [dir, err, arrays].  The descriptor shares the default table of its type when
\* no alias is given, else it shares the slice of the caller, whose array comes
\* after the arrays there are
NewDirAt(h, dirType, p, aliases) ==
    IF p.err # NoError
    THEN [dir |-> NilDir, err |-> Errorf("cannot initialize directory: %s", String(dirType)),
          arrays |-> h]
    ELSE IF Len(aliases) = 0
    THEN [dir |-> MkDir(dirType, Clean(p.path), DefaultAliases(dirType)),
          err |-> NoError, arrays |-> h]
    ELSE [dir |-> MkDir(dirType, Clean(p.path), Slice(Len(h) + 1, Len(aliases))),
          err |-> NoError, arrays |-> Append(h, aliases)]

\* a NewDir that takes the path given as it is
NewDirUnchecked(h, dirType, name, path, aliases) ==
    NewDirAt(h, dirType,
             IF path # Empty THEN [path |-> path, err |-> NoError]
             ELSE DefaultPath(dirType, name),
             aliases)

\* NewDir(dirType, appName, WithPath(path), WithAliases(aliases)) in the arrays h:
\* [dir, err, arrays].
\* An empty path or alias list is the option left out.
NewDir(h, dirType, name, path, aliases) ==
    IF path # Empty /\ ~IsAbs(path)
    THEN [dir |-> NilDir, err |-> Errorf("cannot process relative path: %s", path),
          arrays |-> h]
    ELSE NewDirAt(h, dirType,
                  IF path # Empty THEN [path |-> path, err |-> NoError]
                  ELSE DefaultPath(dirType, name),
                  aliases)

\* sort.Strings: insertion of one string into a sorted list
RECURSIVE Insert(_, _)
Insert(sorted, x) ==
    IF sorted = << >> THEN <<x>>
    ELSE IF StrLess(x, Head(sorted)) THEN <<x>> \o sorted
    ELSE <<Head(sorted)>> \o Insert(Tail(sorted), x)

\* sort.Strings(list)
RECURSIVE SortStrings(_)
SortStrings(list) ==
    IF list = << >> THEN << >>
    ELSE Insert(SortStrings(Tail(list)), Head(list))

\* the arrays after the strings of slice s have been overwritten by list, which is
\* as long as s: what the array holds beyond the slice stays
Store(h, s, list) ==
    [h EXCEPT ![s.arr] = list \o SubSeq(h[s.arr], s.len + 1, Len(h[s.arr]))]

\* append(s, x): [arrays, slice].  The string is written into the array of s when
\* its capacity allows; else the strings move to a new array of twice the
\* capacity (of capacity 1 when there was none).
AppendTo(h, s, x) ==
    IF s.len < Len(h[s.arr])
    THEN [arrays |-> [h EXCEPT ![s.arr][s.len + 1] = x], slice |-> Slice(s.arr, s.len + 1)]
    ELSE [arrays |-> Append(h, Elems(h, s) \o <<x>>
                                 \o [i \in 1..((IF s.len = 0 THEN 1 ELSE 2 * s.len)
                                                  - (s.len + 1)) |-> Empty]),
          slice |-> Slice(Len(h) + 1, s.len + 1)]

\* the loop of AppendAliases on r = [arrays, slice]: each alias is appended unless
\* it exists already
RECURSIVE AppendNew(_, _)
AppendNew(r, new) ==
    IF new = << >> THEN r
    ELSE AppendNew(IF exists(Elems(r.arrays, r.slice), Head(new)) THEN r
                   ELSE AppendTo(r.arrays, r.slice, Head(new)),
                   Tail(new))

\* sort.Strings(d.aliases): the strings of the slice are sorted in its array
Sorted(r) ==
    [arrays |-> Store(r.arrays, r.slice, SortStrings(Elems(r.arrays, r.slice))),
     slice |-> r.slice]

\* an AppendAliases that leaves the strings as they were appended
AppendAliasesUnsorted(h, s, new) == AppendNew([arrays |-> h, slice |-> s], new)

\* Dir.AppendAliases(new...) on a descriptor with the slice s: [arrays, slice]
AppendAliases(h, s, new) == Sorted(AppendNew([arrays |-> h, slice |-> s], new))

\* a removal that gives up the last string of the slice, whichever was found
RemoveAtEnd(r, i) ==
    IF i = 0 THEN r
    ELSE [arrays |-> r.arrays, slice |-> Slice(r.slice.arr, r.slice.len - 1)]

\* append(d.aliases[:i], d.aliases[i+1:]...) for the i-th string of the slice of
\* r = [arrays, slice], i = 0 when the alias was not found: the strings behind it
\* move one place down in the array, whose last place keeps its string
RemoveAt(r, i) ==
    IF i = 0 THEN r
    ELSE [arrays |-> Store(r.arrays, r.slice,
                           SubSeq(Elems(r.arrays, r.slice), 1, i - 1)
                             \o SubSeq(Elems(r.arrays, r.slice), i + 1, r.slice.len)
                             \o << r.arrays[r.slice.arr][r.slice.len] >>),
          slice |-> Slice(r.slice.arr, r.slice.len - 1)]

\* Dir.RemoveAliases(names...) on r = [arrays, slice]: the first string equal to
\* each name is taken out
RECURSIVE RemoveAliases(_, _)
RemoveAliases(r, names) ==
    IF names = << >> THEN r
    ELSE RemoveAliases(RemoveAt(r, Index(Elems(r.arrays, r.slice), << Head(names) >>)),
                       Tail(names))

(***************************************************************************)
(* workspace.go: the keyword maps.                                         *)
(***************************************************************************)
\* an empty (or nil) map[string]string
EmptyMap == [k \in {} |-> Empty]

\* m[k], the empty string when k is not a key of m
MapGet(m, k) == IF k \in DOMAIN m THEN m[k] ELSE Empty

\* m[k] = v
MapPut(m, k, v) == [x \in (DOMAIN m) \cup {k} |-> IF x = k THEN v ELSE m[x]]

\* the loop over d.Aliases() in initKeywords and Assign, from the i-th alias on:
\* every alias maps to the path, the first alias becomes the reverse entry
RECURSIVE AddAliases(_, _, _)
AddAliases(maps, d, i) ==
    IF i > Len(d.aliases) THEN maps
    ELSE AddAliases(
           [keywords |-> MapPut(maps.keywords, d.aliases[i], d.path),
            keywordsReverse |-> IF i = 1
                                THEN MapPut(maps.keywordsReverse, d.path, d.aliases[i])
                                ELSE maps.keywordsReverse],
           d, i + 1)

\* the loop over dirs in initKeywords
RECURSIVE AddDirs(_, _)
AddDirs(maps, dirs) ==
    IF dirs = << >> THEN maps
    ELSE AddDirs(AddAliases(maps, Head(dirs), 1), Tail(dirs))

\* initKeywords(): both maps are cleared and rebuilt from the directories that are
\* set, in the order cache, config, home, temp, workspace
initKeywords(c, cf, h, t, w) ==
    AddDirs([keywords |-> EmptyMap, keywordsReverse |-> EmptyMap],
            SelectSeq(<< c, cf, h, t, w >>, LAMBDA d : d # NilDir))

(***************************************************************************)
(* workspace.go: the registry AppDirs.                                     *)
(***************************************************************************)
\* the record of a call: its name, its arguments, what it returned, the call before
\* it when its input was that call's result, the file system it found, and for
\* Assign whether it replaced a directory that was set before
NoCall == [op |-> "", base |-> Empty, input |-> Empty]
Call(op, dir, base, input, ret, err, prev) ==
    [op |-> op, dir |-> dir, base |-> base, input |-> input,
     ret |-> ret, err |-> err, prev |-> prev, updated |-> FALSE, fs0 |-> fs]

\* the descriptor Assign stores: the default aliases of its type are appended when
\* it has none,
\* in the arrays h: [dir, arrays].  The default table is the argument as it is,
\* read while the loop writes.
Stored(d, h) ==
    IF d.dirType \in Cache..Temp /\ d.aliases.len = 0
    THEN [dir |-> [d EXCEPT !.aliases =
                      AppendAliases(h, d.aliases, Elems(h, DefaultAliases(d.dirType))).slice],
          arrays |-> AppendAliases(h, d.aliases, Elems(h, DefaultAliases(d.dirType))).arrays]
    ELSE [dir |-> d, arrays |-> h]

\* whether Assign replaces a directory that was set before
Updated(t) ==
    \/ t = Cache /\ cache # NilDir
    \/ t = Config /\ config # NilDir
    \/ t = Home /\ home # NilDir
    \/ t = Temp /\ temp # NilDir
    \/ t = Workspace /\ workspace # NilDir

\* the directory of type t after Assign has stored st
Slot(t, st, old) == IF st.dirType = t THEN st ELSE old

\* an Assign that extends the maps by the aliases of st also when it has replaced
\* a directory
AssignMapsExtended(st, h) ==
    AddAliases([keywords |-> keywords, keywordsReverse |-> keywordsReverse], View(h, st), 1)

\* the keyword maps after Assign has stored st in the arrays h: rebuilt when a
\* directory was replaced, else extended by the aliases of st
AssignMaps(st, h) ==
    IF Updated(st.dirType)
    THEN initKeywords(View(h, Slot(Cache, st, cache)), View(h, Slot(Config, st, config)),
                      View(h, Slot(Home, st, home)), View(h, Slot(Temp, st, temp)),
                      View(h, Slot(Workspace, st, workspace)))
    ELSE AddAliases([keywords |-> keywords, keywordsReverse |-> keywordsReverse],
                    View(h, st), 1)

\* the effect of Assign(d) on the registry, d as the caller sees it, r the
\* descriptor stored and the arrays left
AssignStored(d, r, maps) ==
    /\ cache' = Slot(Cache, r.dir, cache)
    /\ config' = Slot(Config, r.dir, config)
    /\ home' = Slot(Home, r.dir, home)
    /\ temp' = Slot(Temp, r.dir, temp)
    /\ workspace' = Slot(Workspace, r.dir, workspace)
    /\ keywords' = maps.keywords
    /\ keywordsReverse' = maps.keywordsReverse
    /\ arrays' = r.arrays
    /\ nAssign' = nAssign + 1
    /\ last' = [Call("Assign", d, Empty, Empty, Empty, NoError, NoCall)
                  EXCEPT !.updated = Updated(d.dirType)]
    /\ UNCHANGED << fs, panicked, held, nAlias >>

\* Assign(d), d a copy of the descriptor of the caller, in the arrays h
Assign(d, h) ==
    /\ ~panicked
    /\ nAssign < MaxAssign
    /\ AssignStored(View(h, d), Stored(d, h),
                    AssignMaps(Stored(d, h).dir, Stored(d, h).arrays))

\* a call that returns ret and leaves the registry and the file system alone
Returns(op, base, input, ret, err, prev) ==
    /\ last' = Call(op, NilDir, base, input, ret, err, prev)
    /\ UNCHANGED << cache, config, home, temp, workspace, keywords, keywordsReverse,
                    fs, nAssign, panicked, arrays, held, nAlias >>

\* a call that ends in a nil pointer dereference
Panics(op, input) ==
    /\ last' = Call(op, NilDir, Empty, input, Empty, NoError, NoCall)
    /\ panicked' = TRUE
    /\ UNCHANGED << cache, config, home, temp, workspace, keywords, keywordsReverse,
                    fs, nAssign, arrays, held, nAlias >>

\* AppDirs.Cache()
CacheCall ==
    /\ ~panicked
    /\ Returns("Cache", Empty, Empty,
               IF cache # NilDir THEN cache.path ELSE Empty, NoError, NoCall)

\* AppDirs.Config(): the guard tests a.cache, the path is read from a.config
ConfigCall ==
    /\ ~panicked
    /\ IF cache # NilDir
       THEN IF config = NilDir THEN Panics("Config", Empty)
            ELSE Returns("Config", Empty, Empty, config.path, NoError, NoCall)
       ELSE Returns("Config", Empty, Empty, Empty, NoError, NoCall)

\* AppDirs.Home()
HomeCall ==
    /\ ~panicked
    /\ Returns("Home", Empty, Empty,
               IF home # NilDir THEN home.path ELSE Empty, NoError, NoCall)

\* AppDirs.Temp()
TempPath == IF temp # NilDir THEN temp.path ELSE Empty
TempCall ==
    /\ ~panicked
    /\ Returns("Temp", Empty, Empty, TempPath, NoError, NoCall)

\* AppDirs.Workspace()
WorkspaceCall ==
    /\ ~panicked
    /\ Returns("Workspace", Empty, Empty,
               IF workspace # NilDir THEN workspace.path ELSE Empty, NoError, NoCall)

(***************************************************************************)
(* workspace.go: the life cycle of the temp directory.  The calls on the   *)
(* file system fail for the state of the file system only.                 *)
(***************************************************************************)
\* path is dir or lies below it, by whole elements
Below(path, dir) ==
    \/ path = dir
    \/ HasPrefix(path, IF dir = <<PathSeparator>> THEN dir ELSE dir \o <<PathSeparator>>)

\* the file system after os.RemoveAll(path): the path and all below it are gone
RemoveAll(files, path) ==
    [q \in { q \in DOMAIN files : ~Below(q, path) } |-> files[q]]

\* os.Mkdir(path) succeeds: nothing is at the path and its parent is a directory
CanMkdir(files, path) ==
    /\ path \notin DOMAIN files
    /\ Dir(path) \in DOMAIN files
    /\ files[Dir(path)] = "dir"

\* the file system after a successful os.Mkdir(path)
Mkdir(files, path) == [q \in (DOMAIN files) \cup {path} |-> IF q = path THEN "dir" ELSE files[q]]

\* the result of a call on the file system: the file system it leaves and its error
Outcome(files, err) == [fs |-> files, err |-> err]

\* the end of RemoveTemp, from the joined path and the cleaned os.TempDir()
RemoveTempAt(current, tmp) ==
    IF ~HasPrefix(current, tmp)
    THEN Outcome(fs, Errorf("temp directory is considered unsafe", Empty))
    ELSE IF current = tmp
    THEN Outcome(fs, Errorf("expected a subdirectory within the temp directory", Empty))
    ELSE Outcome(RemoveAll(fs, current), NoError)

\* RemoveTemp(subdir) on a registry whose temp directory is set
RemoveTemp(subdir) ==
    IF temp.path = Empty
    THEN Outcome(fs, Errorf("temp directory is not configured correctly", Empty))
    ELSE RemoveTempAt(Join(temp.path, subdir), Clean(TempDir))

\* a RecreateTemp that calls os.Mkdir whatever RemoveTemp has returned
RecreateAfterMkdir(removed, path) ==
    IF CanMkdir(removed.fs, path) THEN Outcome(Mkdir(removed.fs, path), NoError)
    ELSE Outcome(removed.fs, Errorf("cannot create temp directory: %s", path))

\* the end of RecreateTemp, from the outcome of RemoveTemp and the joined path
RecreateAfter(removed, path) ==
    IF removed.err # NoError THEN removed
    ELSE IF CanMkdir(removed.fs, path) THEN Outcome(Mkdir(removed.fs, path), NoError)
    ELSE Outcome(removed.fs, Errorf("cannot create temp directory: %s", path))

\* RecreateTemp(subdir) on a registry whose temp directory is set
RecreateTemp(subdir) == RecreateAfter(RemoveTemp(subdir), Join(temp.path, subdir))

\* a CreateTemp that calls os.Mkdir without os.Stat before it
CreateTempAtMkdir(path) ==
    IF path = Empty
    THEN Outcome(fs, Errorf("cannot create temp directory, invalid state", Empty))
    ELSE IF CanMkdir(fs, path) THEN Outcome(Mkdir(fs, path), NoError)
    ELSE Outcome(fs, Errorf("cannot create temp directory: %s", path))

\* the end of CreateTemp, from the path of the temp directory
CreateTempAt(path) ==
    IF path = Empty
    THEN Outcome(fs, Errorf("cannot create temp directory, invalid state", Empty))
    ELSE IF path \in DOMAIN fs
    THEN IF fs[path] = "dir" THEN Outcome(fs, NoError)
         ELSE Outcome(fs, Errorf("cannot create temp directory: '%s'", path))
    ELSE IF CanMkdir(fs, path) THEN Outcome(Mkdir(fs, path), NoError)
    ELSE Outcome(fs, Errorf("cannot create temp directory: %s", path))

\* CreateTemp()
CreateTemp == CreateTempAt(TempPath)

\* a call that leaves the registry alone and the file system as its outcome says
Effect(op, input, outcome) ==
    /\ last' = Call(op, NilDir, Empty, input, Empty, outcome.err, NoCall)
    /\ fs' = outcome.fs
    /\ UNCHANGED << cache, config, home, temp, workspace, keywords, keywordsReverse,
                    nAssign, panicked, arrays, held, nAlias >>

\* the subdirectories callers name
Subdirs == { Empty, << "s" >>, DotDot, << ".", ".", "/", "b" >> }

\* a caller calls CreateTemp()
CreateTempCall ==
    /\ ~panicked
    /\ Effect("CreateTemp", Empty, CreateTemp)

\* a caller calls RemoveTemp(subdir): a.temp.Path() is a nil pointer dereference
\* when no temp directory is set
RemoveTempCall ==
    /\ ~panicked
    /\ \E subdir \in Subdirs :
           IF temp = NilDir THEN Panics("RemoveTemp", subdir)
           ELSE Effect("RemoveTemp", subdir, RemoveTemp(subdir))

\* a caller calls RecreateTemp(subdir): it starts with RemoveTemp(subdir)
RecreateTempCall ==
    /\ ~panicked
    /\ \E subdir \in Subdirs :
           IF temp = NilDir THEN Panics("RecreateTemp", subdir)
           ELSE Effect("RecreateTemp", subdir, RecreateTemp(subdir))

(***************************************************************************)
(* dir.go and workspace.go: the path transcoder.                           *)
(***************************************************************************)
Tilde == << "~" >>

\* an AbsPath that joins every path with the base
AbsPathJoined(base, path) == Clean(Join(base, path))

\* the end of AbsPath, from the path with its "~" expanded
AbsPathExpanded(base, path) ==
    IF IsAbs(path) THEN Clean(path) ELSE Clean(Join(base, path))

\* AbsPath(base, path): a "~" the path starts with is replaced by the home directory
AbsPath(base, path) ==
    AbsPathExpanded(base, IF HasPrefix(path, Tilde) THEN ReplaceFirst(path, Tilde, UserHomeDir)
                          ELSE path)

\* the loop of MakeAbsolute: a segment that is a keyword with a non-empty path is
\* replaced by the path, and every segment is joined to the result
RECURSIVE Expand(_, _)
Expand(segments, result) ==
    IF segments = << >> THEN result
    ELSE Expand(Tail(segments),
                Join(result, IF MapGet(keywords, Head(segments)) # Empty
                             THEN MapGet(keywords, Head(segments))
                             ELSE Head(segments)))

\* the end of MakeAbsolute, from the joined result: the leading separator of an
\* absolute input is put back
MakeAbsoluteFrom(basePath, input, result) ==
    AbsPath(basePath, IF IsAbs(input) /\ ~IsAbs(result) THEN <<PathSeparator>> \o result
                      ELSE result)

\* MakeAbsolute(basePath, input)
MakeAbsolute(basePath, input) ==
    MakeAbsoluteFrom(basePath, input, Expand(Split(input), Empty))

\* the longest keys of a non-empty set of strings
Longest(keys) == { k \in keys : \A j \in keys : Len(j) <= Len(k) }

\* the orders in which Parameterize may find the keys of the reverse map after its
\* stable sort by descending length: the map is ranged over in any order, so keys
\* of one length come in any order
RECURSIVE Orders(_)
Orders(keys) ==
    IF keys = {} THEN { << >> }
    ELSE UNION { { <<k>> \o rest : rest \in Orders(keys \ {k}) } : k \in Longest(keys) }

\* the loop of Parameterize: every occurrence of a key is replaced by its alias.
\* The empty items make() puts before the appended ones replace "" by "" and
\* leave the input as it is.
RECURSIVE Substitute(_, _)
Substitute(input, ordered) ==
    IF ordered = << >> THEN input
    ELSE Substitute(ReplaceAll(input, Head(ordered), keywordsReverse[Head(ordered)]),
                    Tail(ordered))

\* the end of Parameterize, from the input without its trailing separator
ParameterizeFrom(basePath, input, rel) ==
    IF IsAbs(input) THEN input
    ELSE IF rel.ok THEN rel.path
    ELSE Clean(input)

\* the end of Parameterize, from the substituted input
ParameterizeTrimmed(basePath, input) ==
    ParameterizeFrom(basePath, input, Rel(basePath, input))

\* Parameterize(basePath, input) when the sort leaves the keys in the given order
Parameterize(basePath, input, ordered) ==
    ParameterizeTrimmed(basePath, TrimSuffix(Substitute(input, ordered), <<PathSeparator>>))

\* the base paths callers pass: an absolute and a relative one
BasePaths == { << "/", "b" >>, << "b" >> }

\* a MakeRelative that returns the cleaned input also when Rel has a result
MakeRelativeKept(rel, input) == Clean(input)

\* the end of MakeRelative, from the result of filepath.Rel
MakeRelativeFrom(rel, input) == IF rel.ok THEN rel.path ELSE Clean(input)

\* AppDirs.MakeRelative(basePath, input)
MakeRelative(basePath, input) ==
    MakeRelativeFrom(Rel(basePath, MakeAbsolute(basePath, input)), input)

\* what follows a keyword in the inputs of MakeAbsolute
Remainders == { << "r" >>, << "h" >>, << ".", ".", "/", "r" >> }

\* the inputs of MakeAbsolute that start with a keyword of the forward map
KeywordInputs ==
    { a \o <<PathSeparator>> \o r : a \in DOMAIN keywords, r \in Remainders }

\* further inputs of MakeAbsolute: segments that start with "~" or with a keyword,
\* "~" alone, an absolute and a relative path
PlainInputs ==
    { << "~", "x", "/", "r" >>, << "$", "T", "E", "M", "P", "x" >>, << "~", "/", "r" >>,
      << "/", "q", "/", "r" >>, << "r" >> }

\* the inputs of Parameterize: paths below the home, workspace and temp directories
\* that NewAppDirs sets, a path below none of them, a relative path, and an
\* absolute path with a repeated separator, a ".." and a trailing separator
PathInputs ==
    { << "/", "h", "/", "w", "/", "r" >>, << "/", "h", "/", "w", "/", "h" >>,
      << "/", "h", "/", "h", "x" >>, << "/", "h", "/", "r" >>,
      << "/", "t", "/", "A", "/", "r" >>, << "/", "q", "/" >>, << "r" >>,
      << "/", "q", "/", "/", ".", ".", "/", "r", "/" >> }

\* the call a result is taken from, as the next call records it
PrevCall == [op |-> last.op, base |-> last.base, input |-> last.input]

\* MakeAbsolute and Parameterize leave the registry as it is: a call made after
\* another call finds what that call found, so the calls on fresh inputs are taken
\* from the states that construction and Assign leave
Fresh == last.op \in { "", "Assign" }

\* a caller calls MakeAbsolute(basePath, input)
MakeAbsoluteCall ==
    /\ ~panicked
    /\ Fresh
    /\ \E basePath \in BasePaths, input \in KeywordInputs \cup PlainInputs :
           Returns("MakeAbsolute", basePath, input, MakeAbsolute(basePath, input),
                   NoError, NoCall)

\* a caller calls MakeRelative(basePath, input), also with an empty base and an
\* empty input
MakeRelativeCall ==
    /\ ~panicked
    /\ Fresh
    /\ \E basePath \in BasePaths \cup { Empty },
          input \in KeywordInputs \cup PlainInputs \cup { Empty } :
           Returns("MakeRelative", basePath, input, MakeRelative(basePath, input),
                   NoError, NoCall)

\* a caller passes the result of Parameterize to MakeAbsolute, with the same base
MakeAbsoluteOfResult ==
    /\ ~panicked
    /\ last.op = "Parameterize"
    /\ Returns("MakeAbsolute", last.base, last.ret, MakeAbsolute(last.base, last.ret),
               NoError, PrevCall)

\* a caller calls Parameterize(basePath, input)
ParameterizeCall ==
    /\ ~panicked
    /\ Fresh
    /\ \E basePath \in BasePaths, input \in PathInputs,
          ordered \in Orders(DOMAIN keywordsReverse) :
           Returns("Parameterize", basePath, input, Parameterize(basePath, input, ordered),
                   NoError, NoCall)

\* a caller passes the result of MakeAbsolute to Parameterize, with the same base
ParameterizeOfResult ==
    /\ ~panicked
    /\ last.op = "MakeAbsolute"
    /\ \E ordered \in Orders(DOMAIN keywordsReverse) :
           Returns("Parameterize", last.base, last.ret,
                   Parameterize(last.base, last.ret, ordered), NoError, PrevCall)

(***************************************************************************)
(* The initial states: AppDirs{} and the result of NewAppDirs(appName).    *)
(***************************************************************************)
\* the file system every specification starts from
BaseFs ==
    LET dirs == { <<PathSeparator>>, UserHomeDir, Getwd, Join(Getwd, GitDir), TempDir }
    IN  [p \in dirs |-> "dir"]

\* the registry NewAppDirs builds from the results of its five NewDir calls
AppDirsOf(c, cf, h, t, w) ==
    [ok |-> \A r \in {c, cf, h, t, w} : r.err = NoError,
     cache |-> c.dir, config |-> cf.dir, home |-> h.dir, temp |-> t.dir,
     workspace |-> w.dir]

\* NewAppDirs(appName): the five directories by NewDir
NewAppDirs(name) ==
    AppDirsOf(NewDir(InitArrays, Cache, name, Empty, << >>),
              NewDir(InitArrays, Config, name, Empty, << >>),
              NewDir(InitArrays, Home, name, Empty, << >>),
              NewDir(InitArrays, Temp, name, Empty, << >>),
              NewDir(InitArrays, Workspace, name, Empty, << >>))

\* the registry is a, as NewAppDirs returns it after initKeywords
InitFrom(a, maps) ==
    /\ a.ok
    /\ cache = a.cache /\ config = a.config /\ home = a.home
    /\ temp = a.temp /\ workspace = a.workspace
    /\ keywords = maps.keywords /\ keywordsReverse = maps.keywordsReverse

\* the keyword maps initKeywords builds for the registry a
KeywordsOf(a) ==
    initKeywords(View(InitArrays, a.cache), View(InitArrays, a.config),
                 View(InitArrays, a.home), View(InitArrays, a.temp),
                 View(InitArrays, a.workspace))

\* the registry is AppDirs{}
InitEmpty ==
    /\ cache = NilDir /\ config = NilDir /\ home = NilDir
    /\ temp = NilDir /\ workspace = NilDir
    /\ keywords = EmptyMap /\ keywordsReverse = EmptyMap

\* the registry is the one NewAppDirs(appName) returns
InitNewAppDirs == InitFrom(NewAppDirs(appName), KeywordsOf(NewAppDirs(appName)))

\* the rest of the state after construction
InitRest ==
    /\ arrays = InitArrays
    /\ held = << >>
    /\ nAlias = 0
    /\ last = Call("", NilDir, Empty, Empty, Empty, NoError, NoCall)
    /\ nAssign = 0
    /\ panicked = FALSE

(***************************************************************************)
(* The descriptors callers pass to Assign: results of NewDir, also with    *)
(* every alias taken away again by RemoveAliases.                          *)
(***************************************************************************)
\* a DirType below Cache
NoType == 0

\* a custom alias
AliasX == << "$", "X" >>

\* the arguments of a NewDir call, and whether RemoveAliases empties the result
Args(dirType, path, aliases, emptied) ==
    [dirType |-> dirType, path |-> path, aliases |-> aliases, emptied |-> emptied]

\* the result r of NewDir after d.RemoveAliases(d.Aliases()...), when the caller
\* makes that call
Emptied(r, emptied) ==
    IF r.err = NoError /\ emptied
    THEN [dir |-> [r.dir EXCEPT !.aliases =
                      RemoveAliases([arrays |-> r.arrays, slice |-> r.dir.aliases],
                                    Elems(r.arrays, r.dir.aliases)).slice],
          err |-> NoError,
          arrays |-> RemoveAliases([arrays |-> r.arrays, slice |-> r.dir.aliases],
                                   Elems(r.arrays, r.dir.aliases)).arrays]
    ELSE r

\* the descriptor a caller builds from such arguments: [dir, err, arrays]
Build(a) == Emptied(NewDir(arrays, a.dirType, appName, a.path, a.aliases), a.emptied)

\* a caller assigns the descriptor it has built
AssignBuilt(r) ==
    /\ r.err = NoError
    /\ Assign(r.dir, r.arrays)

\* the paths callers give to the registry's directories: one of its own for each
\* type, and one for a value that is no type
PathU == << "/", "u" >>
KindPath(t) == PathU \o << PathSeparator, << "a", "b", "c", "d", "e" >>[t] >>

\* the NewDir calls of the registry specification
RegistryArgs ==
    { Args(t, Empty, << >>, FALSE) : t \in Cache..Temp }
    \cup { Args(t, KindPath(t), <<AliasX>>, FALSE) : t \in Cache..Temp }
    \cup { Args(Cache, KindPath(Cache), << >>, TRUE),
           Args(Workspace, KindPath(Workspace), << >>, TRUE),
           Args(NoType, Empty, <<AliasX>>, FALSE), Args(NoType, PathU, <<AliasX>>, FALSE) }

\* a caller builds a descriptor and assigns it
AssignRegistry == \E a \in RegistryArgs : AssignBuilt(Build(a))

Init ==
    /\ fs = BaseFs
    /\ InitEmpty \/ InitNewAppDirs
    /\ InitRest

Next ==
    \/ AssignRegistry
    \/ CacheCall
    \/ ConfigCall
    \/ HomeCall
    \/ TempCall
    \/ WorkspaceCall

Spec == Init /\ [][Next]_vars

(***************************************************************************)
(* The temp directory specification: registries whose temp directory is    *)
(* assigned by callers, on file systems that hold some, all or none of the *)
(* directories the calls name.                                             *)
(***************************************************************************)
\* the paths callers give to the temp directory: the temp root, the temp root with
\* a trailing separator, a directory whose name starts with the name of the temp
\* root, and a directory elsewhere
PathT == TempDir
PathTSlash == TempDir \o <<PathSeparator>>
PathTx == TempDir \o << "x" >>

\* the NewDir calls of the temp directory specification
TempArgs ==
    { Args(Temp, path, << >>, FALSE) : path \in { Empty, PathT, PathTSlash, PathTx, PathU } }

\* a caller builds a temp directory descriptor and assigns it
AssignTemp == \E a \in TempArgs : AssignBuilt(Build(a))

\* what the file system may hold besides BaseFs
ExtraDirs == { Join(TempDir, appName), Join(Join(TempDir, appName), << "s" >>),
               Join(TempDir, << "b" >>), PathTx }

\* BaseFs with the directories ds, and the path f as a regular file
WithDirs(ds, files) ==
    [p \in (DOMAIN BaseFs) \cup ds \cup files |-> IF p \in files THEN "file" ELSE "dir"]

\* the file systems the temp directory specification starts from: every directory
\* has its parent, and the application's temp path may be a regular file
InitFs ==
    \/ \E ds \in SUBSET ExtraDirs :
           /\ \A p \in ds : Dir(p) \in (DOMAIN BaseFs) \cup ds
           /\ fs = WithDirs(ds, {})
    \/ fs = WithDirs({}, { Join(TempDir, appName) })

InitTemp ==
    /\ InitFs
    /\ InitEmpty \/ InitNewAppDirs
    /\ InitRest

NextTemp ==
    \/ AssignTemp
    \/ CreateTempCall
    \/ RemoveTempCall
    \/ RecreateTempCall

SpecTemp == InitTemp /\ [][NextTemp]_vars

(***************************************************************************)
(* The transcoder specification: registries built by NewAppDirs and by     *)
(* Assign, and the calls of MakeAbsolute, MakeRelative and Parameterize on  *)
(* them.                                                                   *)
(***************************************************************************)
\* a path as long as the path Root returns for the workspace, that starts with
\* what the workspace path ends with
PathWH == << "/", "w", "/", "h" >>

\* the NewDir calls of the transcoder specification
PathArgs ==
    { Args(Home, Empty, << >>, FALSE),
      Args(Workspace, Empty, << >>, FALSE),
      Args(Temp, Empty, << >>, FALSE),
      Args(Cache, PathWH, <<AliasX>>, FALSE),
      Args(NoType, Empty, <<AliasX>>, FALSE) }

\* a caller builds a descriptor and assigns it
AssignPath == \E a \in PathArgs : AssignBuilt(Build(a))

NextPath ==
    \/ AssignPath
    \/ MakeAbsoluteCall
    \/ MakeAbsoluteOfResult
    \/ MakeRelativeCall
    \/ ParameterizeCall
    \/ ParameterizeOfResult

SpecPath == Init /\ [][NextPath]_vars

(***************************************************************************)
(* The descriptor specification: callers construct descriptors by NewDir   *)
(* and change their aliases by AppendAliases and RemoveAliases.            *)
(***************************************************************************)
\* NewDir has returned r for the path and the aliases given: the caller holds the
\* descriptor when there is no error
Constructed(r, path, aliases) ==
    /\ held' = IF r.err = NoError THEN Append(held, r.dir) ELSE held
    /\ arrays' = r.arrays
    /\ last' = Call("NewDir", View(r.arrays, r.dir), path, aliases, Empty, r.err, NoCall)
    /\ UNCHANGED << cache, config, home, temp, workspace, keywords, keywordsReverse,
                    fs, nAssign, panicked, nAlias >>

\* a caller constructs a descriptor: of any type with the default path and the
\* default aliases, of any type with the relative path r/s, with or without
\* aliases of its own, and a cache directory with an alias of its own
NewDirCall ==
    /\ Len(held) < MaxHeld
    /\ \E a \in { Args(t, Empty, << >>, FALSE) : t \in Cache..Temp }
                \cup { Args(t, << "r", "/", "s" >>, aliases, FALSE) :
                         t \in Cache..Temp, aliases \in { << >>, <<AliasX>> } }
                \cup { Args(Cache, Empty, <<AliasX>>, FALSE) } :
           Constructed(NewDir(arrays, a.dirType, appName, a.path, a.aliases),
                       a.path, a.aliases)

\* the i-th descriptor held has changed its aliases to r = [arrays, slice] in a
\* call with the names given; the call is recorded with the results of Aliases()
\* before and after it
Mutated(op, i, r, names) ==
    /\ nAlias < MaxAlias
    /\ held' = [held EXCEPT ![i].aliases = r.slice]
    /\ arrays' = r.arrays
    /\ last' = Call(op, View(r.arrays, [held[i] EXCEPT !.aliases = r.slice]),
                    Elems(arrays, held[i].aliases), names, Elems(r.arrays, r.slice),
                    NoError, NoCall)
    /\ nAlias' = nAlias + 1
    /\ UNCHANGED << cache, config, home, temp, workspace, keywords, keywordsReverse,
                    fs, nAssign, panicked >>

\* d.AppendAliases(names...) on a descriptor held: a custom alias, named twice,
\* or every alias the descriptor has
AppendAliasesCall ==
    \E i \in 1..Len(held) :
        \E names \in { <<AliasX, AliasX>>, Elems(arrays, held[i].aliases) } :
            Mutated("AppendAliases", i, AppendAliases(arrays, held[i].aliases, names), names)

\* d.RemoveAliases(names...) on a descriptor held: a custom alias, every alias the
\* descriptor has, or its first alias
RemoveAliasesCall ==
    \E i \in 1..Len(held) :
        \E names \in { <<AliasX>>, Elems(arrays, held[i].aliases) }
                       \cup { << Elems(arrays, held[i].aliases)[k] >> :
                                k \in 1..held[i].aliases.len \cap {1} } :
            Mutated("RemoveAliases", i,
                    RemoveAliases([arrays |-> arrays, slice |-> held[i].aliases], names),
                    names)

\* the file system holds the repository marker in the working directory, or
\* nowhere
InitDir ==
    /\ fs \in { BaseFs, [p \in (DOMAIN BaseFs) \ { Join(Getwd, GitDir) } |-> "dir"] }
    /\ InitEmpty
    /\ InitRest

NextDir ==
    \/ NewDirCall
    \/ AppendAliasesCall
    \/ RemoveAliasesCall

SpecDir == InitDir /\ [][NextDir]_vars

(***************************************************************************)
(* The root specification: Root is called by processes of different names  *)
(* in different working directories, on file systems that hold the         *)
(* repository marker, as a directory or as a file, in some, all or none of *)
(* the directories.  The other functions of dir.go that read no registry,  *)
(* AbsPath and DirType.String, are called on them as well.                 *)
(***************************************************************************)
\* a directory, the directory it is in, and the root
DirAB == << "/", "a", "/", "b" >>
RootDirs == { DirAB, Dir(DirAB), <<PathSeparator>> }

\* the file system that holds the marker as m says: "dir", "file" or "none" for
\* each directory
MarkedFs(m) ==
    [p \in RootDirs \cup { Join(d, GitDir) : d \in { e \in RootDirs : m[e] # "none" } }
       |-> IF p \in RootDirs THEN "dir" ELSE m[Dir(p)]]

\* Root(appName) called in a process started as args0, in the working directory wd
RootCall ==
    \E wd \in RootDirs, args0 \in { Args0, << "/", "g", "/" >> \o appName } :
        Returns("Root", wd, args0, RootOf(args0, wd, appName).path,
                RootOf(args0, wd, appName).err, NoCall)

\* AbsPath(base, path) called with an absolute, a relative and an empty base, and
\* with paths that start with "~", absolute paths and relative paths, cleaned or not
AbsPathCall ==
    \E base \in BasePaths \cup { Empty, DotDot },
       path \in PlainInputs \cup { Empty, Tilde, << "/", "q", "/", "/", "r", "/" >>,
                                   << ".", ".", "/", "r" >>, << "r", "/", ".", ".", "/", "~" >> } :
        Returns("AbsPath", base, path, AbsPath(base, path), NoError, NoCall)

\* the values String is called on: the five types, zero, a negative value and a
\* value above Temp
DirTypes == (0 - 1)..(Temp + 1)

\* DirType(d).String() called; the value is the only element of the input
StringCall ==
    \E d \in DirTypes : Returns("String", Empty, << d >>, String(d), NoError, NoCall)

InitRoot ==
    /\ fs \in { MarkedFs(m) : m \in [RootDirs -> { "dir", "file", "none" }] }
    /\ InitEmpty
    /\ InitRest

NextRoot ==
    \/ RootCall
    \/ AbsPathCall
    \/ StringCall

SpecRoot == InitRoot /\ [][NextRoot]_vars

(***************************************************************************)
(* Claims about the registry, checked under Spec.                          *)
(***************************************************************************)
\* the strings of a list
SetOf(list) == { list[i] : i \in DOMAIN list }

\* the path of the descriptor assigned for a type, "" when none is assigned
PathOf(d) == IF d = NilDir THEN Empty ELSE d.path

\* C1: in every registry state reached by Assign calls, each accessor Cache(),
\* Config(), Home(), Temp() and Workspace() returns the path of the descriptor
\* assigned for its own kind, and the empty string when none is assigned,
\* whatever other kinds are assigned.
C1_AccessorReturnsOwnPath ==
    /\ last.op = "Cache" => ~panicked /\ last.ret = PathOf(cache)
    /\ last.op = "Config" => ~panicked /\ last.ret = PathOf(config)
    /\ last.op = "Home" => ~panicked /\ last.ret = PathOf(home)
    /\ last.op = "Temp" => ~panicked /\ last.ret = PathOf(temp)
    /\ last.op = "Workspace" => ~panicked /\ last.ret = PathOf(workspace)

\* the default alias list of a kind, as dir.go lists it
Listed(t) == Elems(InitArrays, DefaultAliases(t))

\* the aliases of a descriptor handed to Assign: the defaults of its kind when it
\* was given none
AliasesOf(d) ==
    LET given == IF Len(d.aliases) = 0 THEN Listed(d.dirType) ELSE d.aliases
    IN  { given[i] : i \in 1..Len(given) }

\* the registered descriptors, with the aliases Aliases() returns
Registered ==
    { View(arrays, d) : d \in { e \in { cache, config, home, temp, workspace } : e # NilDir } }

\* C10: immediately after Assign(d) for a descriptor d of a valid kind,
\* every alias of d maps in the forward map to the path of d, whether or not the
\* kind was registered before and whether or not another registered descriptor
\* carries the same alias.
C10_AssignedAliasesMapToPath ==
    (last.op = "Assign" /\ last.dir.dirType \in Cache..Temp)
        => \A a \in AliasesOf(last.dir) : MapGet(keywords, a) = last.dir.path

\* C23: a kind value outside Cache..Temp is rejected where it is used as a
\* discriminant: NewDir returns an error instead of a descriptor for it, so that
\* every descriptor a caller hands to Assign has one of the five kinds and an
\* absolute path, and Assign adds no entry to the keyword maps for a descriptor
\* that it does not store under one of the five kinds.
C23_InvalidKindRejected ==
    last.op = "Assign"
        => /\ last.dir.dirType \in Cache..Temp
           /\ IsAbs(last.dir.path)
           /\ \A i \in 1..Len(last.dir.aliases) :
                  MapGet(keywords, last.dir.aliases[i]) = last.dir.path
                      => \E d \in Registered :
                            d.path = last.dir.path /\ exists(d.aliases, last.dir.aliases[i])

\* C24: after Assign has replaced the descriptor of a kind that was registered,
\* both maps are rebuilt from the registered descriptors only: the keys of the
\* forward map are the aliases of the registered descriptors, the keys of the
\* reverse map are the paths of the registered descriptors that have an alias, and
\* every entry is one a registered descriptor provides, so nothing of the
\* replaced descriptor is left unless another descriptor provides it.
C24_RebuiltFromRegistered ==
    (last.op = "Assign" /\ last.updated)
        => /\ DOMAIN keywords = UNION { SetOf(d.aliases) : d \in Registered }
           /\ DOMAIN keywordsReverse = { d.path : d \in { e \in Registered : e.aliases # << >> } }
           /\ \A k \in DOMAIN keywords :
                  \E d \in Registered : exists(d.aliases, k) /\ keywords[k] = d.path
           /\ \A p \in DOMAIN keywordsReverse :
                  \E d \in Registered : d.path = p /\ exists(d.aliases, keywordsReverse[p])

\* Assign has replaced a cache directory that had the alias "$CACHE" by one that
\* has the alias "$X" only, and "$CACHE" is no keyword any more, while the
\* entries of another kind are still there
C24_Witness ==
    /\ last.op = "Assign" /\ last.updated
    /\ last.dir.dirType = Cache /\ last.dir.aliases = <<AliasX>>
    /\ Listed(Cache)[1] \notin DOMAIN keywords
    /\ MapGet(keywords, AliasX) = last.dir.path
    /\ home # NilDir /\ MapGet(keywordsReverse, home.path) # Empty

\* the registered descriptors that have the path p and an alias
AliasedAt(p) == { d \in Registered : d.path = p /\ d.aliases # << >> }

\* C25: in every registry state reached by Assign calls with valid kinds, each
\* entry path -> alias of the reverse map names the first alias of a registered
\* descriptor that has the path, every registered descriptor that has an alias
\* has a reverse entry for its path, and for a descriptor that has the default
\* aliases of its kind the first alias is the first entry of the default table.
\* Entries for paths of no registered descriptor are left to C23.
C25_ReverseNamesFirstAlias ==
    /\ \A p \in DOMAIN keywordsReverse :
           (\E d \in Registered : d.path = p)
               => \E d \in AliasedAt(p) : keywordsReverse[p] = d.aliases[1]
    /\ \A d \in Registered : d.aliases # << >> => d.path \in DOMAIN keywordsReverse
    /\ \A d \in Registered :
           (d.aliases # << >> /\ SetOf(d.aliases) \subseteq SetOf(Listed(d.dirType)))
               => d.aliases[1] = Listed(d.dirType)[1]

\* the descriptors the registry holds, one for each kind that is set, with the
\* aliases Aliases() returns
Slots == SelectSeq(<< cache, config, home, temp, workspace >>, LAMBDA d : d # NilDir)

\* no two registered descriptors share an alias or a path
Apart ==
    \A i, j \in 1..Len(Slots) :
        i # j => /\ Slots[i].path # Slots[j].path
                 /\ SetOf(View(arrays, Slots[i]).aliases)
                        \cap SetOf(View(arrays, Slots[j]).aliases) = {}

\* C29: when no two registered descriptors share an alias or a path, the forward
\* and the reverse map are, after every sequence of Assign calls, the maps a full
\* rebuild from the registered descriptors produces.
C29_MapsEqualRebuild ==
    Apart => [keywords |-> keywords, keywordsReverse |-> keywordsReverse]
                 = initKeywords(IF cache = NilDir THEN NilDir ELSE View(arrays, cache),
                                IF config = NilDir THEN NilDir ELSE View(arrays, config),
                                IF home = NilDir THEN NilDir ELSE View(arrays, home),
                                IF temp = NilDir THEN NilDir ELSE View(arrays, temp),
                                IF workspace = NilDir THEN NilDir ELSE View(arrays, workspace))

(***************************************************************************)
(* Claims about the temp directory, checked under SpecTemp.                *)
(***************************************************************************)
\* path lies in dir by whole path elements and is not dir itself
ProperDescendant(path, dir) ==
    LET ps == RelElems(path)
        ds == RelElems(dir)
    IN  /\ Len(ds) < Len(ps)
        /\ SubSeq(ps, 1, Len(ds)) = ds

\* the platform temp root
TempRoot == Clean(TempDir)

\* C2: for every configured temp path and every subdir, RemoveTemp(subdir) deletes
\* something only when the target join(tempPath, subdir) is a proper descendant of
\* the platform temp root by whole path segments; for every other target it
\* returns an error and leaves the file system unchanged.
C2_RemoveTempOnlyBelowTempRoot ==
    (last.op = "RemoveTemp" /\ temp # NilDir)
        => /\ fs # last.fs0 => ProperDescendant(Join(temp.path, last.input), TempRoot)
           /\ ~ProperDescendant(Join(temp.path, last.input), TempRoot)
                  => last.err # NoError /\ fs = last.fs0

\* C3: RemoveTemp on a target equal to the platform temp root fails with "expected
\* a subdirectory within the temp directory", on a target outside the temp root
\* with "temp directory is considered unsafe", and on a proper subdirectory of the
\* temp root it returns no error and the directory does not exist afterwards.
C3_RemoveTempScenarios ==
    (last.op = "RemoveTemp" /\ temp # NilDir)
        => /\ Join(temp.path, last.input) = TempRoot
                  => last.err.msg = "expected a subdirectory within the temp directory"
           /\ ( /\ Join(temp.path, last.input) # TempRoot
                /\ ~ProperDescendant(Join(temp.path, last.input), TempRoot) )
                  => last.err.msg = "temp directory is considered unsafe"
           /\ ProperDescendant(Join(temp.path, last.input), TempRoot)
                  => /\ last.err = NoError
                     /\ Join(temp.path, last.input) \notin DOMAIN fs

\* C4: RemoveTemp and RecreateTemp on a registry in which no Temp descriptor was
\* ever assigned return an error to the caller; they never crash the process and
\* they leave the file system unchanged.
C4_NoTempReturnsError ==
    (last.op \in { "RemoveTemp", "RecreateTemp" } /\ temp = NilDir)
        => /\ ~panicked
           /\ last.err # NoError
           /\ fs = last.fs0

\* C19: CreateTemp on a registry without a temp directory fails with "cannot
\* create temp directory, invalid state" and leaves the file system as it was;
\* when the temp path is a directory already it returns no error and leaves the
\* file system as it was, so that after a CreateTemp without error another
\* CreateTemp returns no error and changes nothing; when the temp path is there
\* but is no directory it returns an error.
C19_CreateTemp ==
    last.op = "CreateTemp"
        => /\ temp = NilDir
                  => /\ last.err = [msg |-> "cannot create temp directory, invalid state",
                                    arg |-> Empty]
                     /\ fs = last.fs0
           /\ (temp # NilDir /\ temp.path \in DOMAIN last.fs0)
                  => /\ fs = last.fs0
                     /\ last.err = NoError <=> last.fs0[temp.path] = "dir"
           /\ last.err = NoError => CreateTemp = [fs |-> fs, err |-> NoError]

\* CreateTemp has found the temp path as a directory and has returned no error
C19_Witness ==
    /\ last.op = "CreateTemp" /\ temp # NilDir /\ temp.path \in DOMAIN last.fs0
    /\ last.fs0[temp.path] = "dir" /\ last.err = NoError /\ fs = last.fs0

\* the errors of the safety test of RemoveTemp
Rejections ==
    { Errorf("temp directory is not configured correctly", Empty),
      Errorf("temp directory is considered unsafe", Empty),
      Errorf("expected a subdirectory within the temp directory", Empty) }

\* C27: after RecreateTemp(subdir) has returned without error, join(tempPath,
\* subdir) is a directory with nothing in it, whatever it held before; when the
\* safety test of RemoveTemp rejects the target, RecreateTemp returns the error
\* of RemoveTemp and deletes and creates nothing.
C27_RecreateTemp ==
    (last.op = "RecreateTemp" /\ temp # NilDir)
        => /\ last.err = NoError
                  => /\ Join(temp.path, last.input) \in DOMAIN fs
                     /\ fs[Join(temp.path, last.input)] = "dir"
                     /\ \A q \in DOMAIN fs :
                            Below(q, Join(temp.path, last.input))
                                => q = Join(temp.path, last.input)
           /\ RemoveTemp(last.input).err \in Rejections
                  => last.err = RemoveTemp(last.input).err /\ fs = last.fs0
           /\ last.err \in Rejections => fs = last.fs0

\* RecreateTemp has returned without error for a directory that held another
\* directory before
C27_Witness ==
    /\ last.op = "RecreateTemp" /\ temp # NilDir /\ last.err = NoError
    /\ \E q \in DOMAIN last.fs0 :
           Below(q, Join(temp.path, last.input)) /\ q # Join(temp.path, last.input)
    /\ fs[Join(temp.path, last.input)] = "dir"

\* the paths a call has deleted, created or replaced
Touched ==
    { q \in (DOMAIN fs) \cup (DOMAIN last.fs0) :
        \/ q \notin DOMAIN fs
        \/ q \notin DOMAIN last.fs0
        \/ fs[q] # last.fs0[q] }

\* C28: RemoveTemp and RecreateTemp delete and create paths inside the configured
\* temp directory of the registry only, the directory itself or a path below it
\* by whole path segments, for every subdir, also one with "..": never a sibling
\* of it and never another directory below the platform temp root.
C28_OnlyInsideConfiguredTemp ==
    (last.op \in { "RemoveTemp", "RecreateTemp" } /\ temp # NilDir)
        => \A q \in Touched : Below(q, temp.path)

(***************************************************************************)
(* Claims about the transcoder, checked under SpecPath.                    *)
(***************************************************************************)
\* sub occurs in s
Contains(s, sub) == sub = Empty \/ Index(s, sub) # 0

\* the segments of a path
SegmentsOf(path) == { Split(path)[i] : i \in 1..Len(Split(path)) }

\* a segment that is no alias but contains one, or starts with "~" and goes on
Partial(s) ==
    /\ s \notin DOMAIN keywords
    /\ \/ \E a \in DOMAIN keywords : a # Empty /\ Contains(s, a)
       \/ HasPrefix(s, Tilde) /\ Len(s) > 1

\* C5: MakeAbsolute substitutes a keyword only for a whole segment that equals a
\* registered alias: a segment of the input that merely contains or starts with
\* an alias, or that starts with "~" followed by other characters, is a segment
\* of the result as it was written (inputs without ".." segments, which remove
\* the segment before them).
C5_PartialSegmentsKept ==
    (last.op = "MakeAbsolute" /\ DotDot \notin SegmentsOf(last.input))
        => \A s \in SegmentsOf(last.input) : Partial(s) => s \in SegmentsOf(last.ret)

\* C6: for every alias a of the forward map and every remainder r whose segments
\* are not aliases, MakeAbsolute(base, a/r) is the cleaned join of the path mapped
\* to a with r, whatever base is; the registry of NewAppDirs holds every default
\* keyword in its bare and its braced form.
C6_KeywordExpandsToJoin ==
    last.op = "MakeAbsolute"
        => \A a \in DOMAIN keywords, r \in Remainders :
               ( /\ last.input = a \o <<PathSeparator>> \o r
                 /\ SegmentsOf(r) \cap DOMAIN keywords = {} )
                   => last.ret = Clean(Join(keywords[a], r))

\* the paths of the registered directories that have a reverse alias
AliasedPaths == { d.path : d \in Registered } \cap DOMAIN keywordsReverse

\* the registered paths with an alias that a path equals or lies under
Under(path) == { p \in AliasedPaths : path = p \/ ProperDescendant(path, p) }

\* C7: Parameterize replaces longer registered paths before shorter ones: when the
\* path of registered directory A lies strictly under the path of registered
\* directory B, Parameterize of a path under A (and under no registered path below
\* A) is the reverse alias of A followed by the remainder.
C7_LongerPathFirst ==
    (last.op = "Parameterize" /\ last.prev = NoCall)
        => \A pa \in Under(last.input), pb \in AliasedPaths :
               ( /\ ProperDescendant(pa, pb)
                 /\ \A pc \in Under(last.input) : Len(pc) <= Len(pa) )
                   => last.ret = keywordsReverse[pa]
                                   \o SubSeq(last.input, Len(pa) + 1, Len(last.input))

\* C8: for every base and every absolute path strictly under the path of a
\* registered directory, MakeAbsolute(base, Parameterize(base, path)) is the
\* cleaned path, provided the path of no other registered alias is a substring
\* of it.
C8_RoundTripFromPath ==
    (last.op = "MakeAbsolute" /\ last.prev.op = "Parameterize")
        => \A p \in AliasedPaths :
               ( /\ IsAbs(last.prev.input)
                 /\ ProperDescendant(Clean(last.prev.input), p)
                 /\ \A q \in DOMAIN keywordsReverse \ {p} :
                        ~Contains(last.prev.input, q) )
                   => last.ret = Clean(last.prev.input)

\* the paths of the registered directories and of the reverse map
RegisteredPaths == DOMAIN keywordsReverse \cup { d.path : d \in Registered }

\* C9: for every registered directory with reverse alias r and every remainder s
\* (without ".." segments, which the cleaned path does not keep),
\* Parameterize(base, MakeAbsolute(base, r/s)) is r/s when no other registered
\* path equals, contains or is contained in the path of the directory.
C9_RoundTripFromKeyword ==
    (last.op = "Parameterize" /\ last.prev.op = "MakeAbsolute")
        => \A p \in AliasedPaths, s \in Remainders :
               ( /\ last.prev.input = keywordsReverse[p] \o <<PathSeparator>> \o s
                 /\ DotDot \notin SegmentsOf(s)
                 /\ \A q \in RegisteredPaths \ {p} : ~Contains(q, p) /\ ~Contains(p, q) )
                   => last.ret = last.prev.input

\* C20: MakeRelative(base, input) is MakeAbsolute(base, input) relative to base:
\* the join of base and the result, cleaned, is MakeAbsolute(base, input).  When
\* there is no relative form, one of base and MakeAbsolute(base, input) being
\* absolute and the other not, the result is the cleaned input, its keywords as
\* they were.
C20_MakeRelative ==
    last.op = "MakeRelative"
        => IF IsAbs(last.base) = IsAbs(MakeAbsolute(last.base, last.input))
           THEN Clean(Join(last.base, last.ret)) = MakeAbsolute(last.base, last.input)
           ELSE last.ret = Clean(last.input)

\* MakeRelative has expanded a keyword and has returned a path that leads from
\* the base up and down to the expansion
C20_Witness ==
    /\ last.op = "MakeRelative" /\ IsAbs(last.base) /\ last.input \in KeywordInputs
    /\ MakeAbsolute(last.base, last.input) # Clean(last.input)
    /\ last.ret # Clean(last.input) /\ Contains(last.ret, DotDot)
    /\ Clean(Join(last.base, last.ret)) = MakeAbsolute(last.base, last.input)

\* C26: Parameterize returns a cleaned path for every input, whether the result
\* is relative or absolute: filepath.Clean leaves it as it is, so it has no
\* trailing separator, no repeated separator, no "." segment and no ".." segment
\* that Clean would resolve.
C26_ParameterizeCleaned ==
    last.op = "Parameterize" => Clean(last.ret) = last.ret

\* C30: Parameterize is deterministic for a registry in which no two registered
\* descriptors that have an alias share a path, so that every registered path has
\* one alias in the reverse map: whatever order the reverse map is ranged over
\* in, a call with the base and the input of the last call returns what the last
\* call has returned, also when two registered paths of one length both occur in
\* the input.
C30_ParameterizeDeterministic ==
    (/\ last.op = "Parameterize"
     /\ \A p \in DOMAIN keywordsReverse : Cardinality(AliasedAt(p)) = 1)
        => \A ordered \in Orders(DOMAIN keywordsReverse) :
               Parameterize(last.base, last.input, ordered) = last.ret

(***************************************************************************)
(* Claims about the descriptors, checked under SpecDir.                    *)
(***************************************************************************)
\* C11: NewDir called with an explicit path that is not absolute fails with the
\* error "cannot process relative path: <path>" carrying that path, whatever the
\* kind and the alias option, and returns no descriptor.
C11_RelativePathRejected ==
    (last.op = "NewDir" /\ last.base # Empty /\ ~IsAbs(last.base))
        => /\ last.err = [msg |-> "cannot process relative path: %s", arg |-> last.base]
           /\ last.dir = NilDir

\* NewDir has rejected a relative path given together with aliases, and the
\* caller holds the one descriptor it held before
C11_Witness ==
    /\ last.op = "NewDir" /\ last.base # Empty /\ ~IsAbs(last.base)
    /\ last.input = <<AliasX>>
    /\ last.err.msg = "cannot process relative path: %s" /\ last.dir = NilDir
    /\ Len(held) = 1

C13_DefaultAliasesIntact ==
    /\ \A t \in Cache..Temp : Elems(arrays, DefaultAliases(t)) = Listed(t)
    /\ (last.op = "NewDir" /\ last.input = << >> /\ last.err = NoError)
           => last.dir.aliases = Listed(last.dir.dirType)

\* how often x is in the list
Count(list, x) == Cardinality({ i \in DOMAIN list : list[i] = x })

\* C14: AppendAliases of aliases that are all present leaves the set of aliases
\* as it was, every alias named in an AppendAliases call is in the list once
\* after it, and no descriptor held has a string twice in its list.
C14_AppendIdempotent ==
    /\ last.op = "AppendAliases"
           => /\ SetOf(last.input) \subseteq SetOf(last.base)
                     => SetOf(last.ret) = SetOf(last.base)
              /\ \A x \in SetOf(last.input) : Count(last.ret, x) = 1
    /\ \A i \in DOMAIN held :
           \A x \in SetOf(Elems(arrays, held[i].aliases)) :
               Count(Elems(arrays, held[i].aliases), x) = 1

\* the list is in ascending order of its strings
Ascending(list) == \A i \in 1..(Len(list) - 1) : ~StrLess(list[i + 1], list[i])

RECURSIVE Embeds(_, _)
Embeds(a, b) ==
    IF a = << >> THEN TRUE
    ELSE IF b = << >> THEN FALSE
    ELSE Embeds(IF Head(a) = Head(b) THEN Tail(a) ELSE a, Tail(b))

\* C16: RemoveAliases takes out of the list one entry for each time an alias is
\* named, as far as the list has them, and no other entry; the list is unchanged
\* when none of the names is in it; the entries left keep their order; the list is
\* empty when every entry of the list is named.
C16_RemoveAliases ==
    last.op = "RemoveAliases"
        => /\ \A x \in SetOf(last.base) \cup SetOf(last.input) :
                  Count(last.ret, x) =
                      IF Count(last.base, x) > Count(last.input, x)
                      THEN Count(last.base, x) - Count(last.input, x)
                      ELSE 0
           /\ SetOf(last.input) \cap SetOf(last.base) = {} => last.ret = last.base
           /\ Embeds(last.ret, last.base)
           /\ (\A x \in SetOf(last.base) : Count(last.input, x) >= Count(last.base, x))
                  => last.ret = << >>

\* RemoveAliases has taken the first alias out of a list of more than two
C16_Witness ==
    /\ last.op = "RemoveAliases" /\ Len(last.base) > 2
    /\ last.input = << last.base[1] >> /\ last.ret = Tail(last.base)

(***************************************************************************)
(* Claims about Root, checked under SpecRoot.                              *)
(***************************************************************************)
\* C17: Root(appName) returns the working directory as it is whenever the base
\* name of the path the process was started as equals appName, whatever the
\* directories hold: with the marker in the working directory, in a directory
\* above it, or nowhere.
C17_OwnNameReturnsWorkingDirectory ==
    (last.op = "Root" /\ BaseName(last.input) = appName)
        => last.ret = last.base /\ last.err = NoError

\* Root has returned the working directory of a process named appName though the
\* marker is in the directory above and not in the working directory
C17_Witness ==
    /\ last.op = "Root" /\ BaseName(last.input) = appName
    /\ last.base = DirAB /\ last.ret = DirAB
    /\ ~IsDirectory(Join(DirAB, GitDir)) /\ IsDirectory(Join(Dir(DirAB), GitDir))

\* the directories from wd up to the root that hold a directory named .git
Marked(wd) ==
    { d \in RootDirs : /\ d = wd \/ ProperDescendant(wd, d)
                       /\ Join(d, GitDir) \in DOMAIN fs
                       /\ fs[Join(d, GitDir)] = "dir" }

\* C18: when the base name of the process differs from appName, Root ends for
\* every working directory and returns the nearest directory, from the working
\* directory up to the root, the root included, that holds a directory named
\* .git (a file named .git does not count); when there is none it fails with the
\* error that the workspace root cannot be identified.
C18_NearestMarkedDirectory ==
    (last.op = "Root" /\ BaseName(last.input) # appName)
        => IF Marked(last.base) = {}
           THEN /\ last.ret = Empty
                /\ last.err = [msg |-> "cannot identify workspace root (no .git repository found)",
                               arg |-> Empty]
           ELSE /\ last.err = NoError
                /\ last.ret \in Marked(last.base)
                /\ \A d \in Marked(last.base) : Len(d) <= Len(last.ret)

\* Root has passed a working directory that holds a file named .git and a
\* directory above it without the marker, and has returned the root
C18_Witness ==
    /\ last.op = "Root" /\ BaseName(last.input) # appName
    /\ last.base = DirAB /\ last.ret = <<PathSeparator>>
    /\ Join(DirAB, GitDir) \in DOMAIN fs /\ fs[Join(DirAB, GitDir)] = "file"
    /\ Join(Dir(DirAB), GitDir) \notin DOMAIN fs

(***************************************************************************)
(* Claims about AbsPath and String, checked under SpecRoot.                *)
(***************************************************************************)
\* the path with the "~" it starts with replaced by the home directory
Expanded(path) ==
    IF path # Empty /\ Head(path) = "~" THEN UserHomeDir \o Tail(path) ELSE path

\* AbsPath(base, ret) = ret for the result ret of the last call
AbsPathIdempotent == AbsPath(last.base, last.ret) = last.ret

\* C21 as stated: AbsPath(base, path) replaces a "~" the path starts with by the
\* home directory, then returns the cleaned path when it is absolute and the
\* cleaned join of base and path otherwise; the result is absolute whenever base
\* is absolute; and AbsPath(base, AbsPath(base, p)) = AbsPath(base, p) for every
\* base and p.
C21_AbsPathIdempotent ==
    last.op = "AbsPath"
        => /\ last.ret = IF IsAbs(Expanded(last.input)) THEN Clean(Expanded(last.input))
                         ELSE Clean(Join(last.base, Expanded(last.input)))
           /\ IsAbs(last.base) => IsAbs(last.ret)
           /\ AbsPathIdempotent

\* C21, amended: as above, with AbsPath(base, AbsPath(base, p)) = AbsPath(base, p)
\* whenever the result is absolute, as it is for every absolute base.
C21_AbsPathIdempotentWhenAbsolute ==
    last.op = "AbsPath"
        => /\ last.ret = IF IsAbs(Expanded(last.input)) THEN Clean(Expanded(last.input))
                         ELSE Clean(Join(last.base, Expanded(last.input)))
           /\ IsAbs(last.base) => IsAbs(last.ret)
           /\ IsAbs(last.ret) => AbsPathIdempotent

\* AbsPath has joined a relative path that is not clean with an absolute base
C21_Witness ==
    /\ last.op = "AbsPath" /\ IsAbs(last.base) /\ ~IsAbs(last.input)
    /\ ~HasPrefix(last.input, Tilde) /\ Clean(last.input) # last.input
    /\ IsAbs(last.ret) /\ AbsPathIdempotent

\* C22: DirType.String() returns "cache", "config", "home", "workspace" and
\* "temp" for the five types and the empty string for every other integer: zero,
\* a negative value, a value above Temp.
C22_String ==
    last.op = "String"
        => last.ret = CASE last.input[1] = Cache -> << "c", "a", "c", "h", "e" >>
                        [] last.input[1] = Config -> << "c", "o", "n", "f", "i", "g" >>
                        [] last.input[1] = Home -> << "h", "o", "m", "e" >>
                        [] last.input[1] = Workspace
                             -> << "w", "o", "r", "k", "s", "p", "a", "c", "e" >>
                        [] last.input[1] = Temp -> << "t", "e", "m", "p" >>
                        [] OTHER -> Empty

\* String has returned the empty string for a negative value
C22_Witness == last.op = "String" /\ last.input[1] < 0 /\ last.ret = Empty

====
